---- MODULE Spec2Model ----
(***************************************************************************)
(* cardaio.Heartbeat (src/cardaio/_core.py): an iterator with adjustable   *)
(* delays between iterations.                                              *)
(*                                                                         *)
(* Numbers.  Python floats are modelled as fixed-point numbers: an integer *)
(* n stands for n/8 of a second, and an operation whose exact result is    *)
(* not a whole number of eighths is rounded to the nearest one, ties to    *)
(* even, which is what IEEE-754 does at the bottom of its range (so 1/2 of *)
(* the smallest positive number is 0, as in Python).  The grid is coarser *)
(* than a double's, so rounding shows up at small values already.  `ratio` *)
(* is a dimensionless float and is modelled as a fraction <<num, den>>.    *)
(* A timedelta is a whole number of microseconds.  Sums and differences of *)
(* grid numbers are exact: the error of one unit in the last place that a  *)
(* double's sum or difference can carry is not modelled.  The largest      *)
(* finite float is scaled down to float_max, above which a sum is inf.     *)
(***************************************************************************)
EXTENDS Integers, Sequences, FiniteSets, TLC

VARIABLES
    hb,          \* "new" before Heartbeat(...) ran, then "alive" or "failed" (it raised)
    args,        \* the keyword arguments Heartbeat(...) was called with
    _fastest,    \* self._fastest
    _slowest,    \* self._slowest
    _callbacks,  \* self._callbacks
    _prev,       \* self._prev
    _ratio,      \* self._ratio
    _delay,      \* self._delay
    now,         \* what the injected time source self._now() returns at this instant
    pc,          \* where the running wait()/__next__() is: "idle" (none runs),
                 \* "sleep1", "sleep2" (in its first, second sleep), "done" (about to return)
    mode,        \* which of the two is running: "wait" (asyncio.sleep), "__next__"
                 \* (time.sleep), or "none"
    deadline,    \* the instant the sleep in progress is due to return
    op,          \* the last call that returned or raised
    ret,         \* what it returned ("True", "False", "None") or raised
    ticks,       \* wait()/__next__() calls that set self._prev so far, counted up to 2
    retry,       \* a wait() was cancelled and none has returned since
    \* the running call's own record, dropped when it returns or raises:
    t0,          \* now() when the call began
    p0,          \* self._prev when the call began
    d0,          \* self._delay when the call began
    d1,          \* self._delay when its second _get_pause() ran
    r1,          \* the duration passed to its first sleep
    r2,          \* the duration passed to its second sleep
    lag1,        \* its first sleep returned later than asked
    lag2,        \* its second sleep returned later than asked
    hist,        \* the calls made on the object so far, where they are recorded
    twin         \* where two runs are compared: the record of the first one

vars == <<hb, args, _fastest, _slowest, _callbacks, _prev, _ratio, _delay, now,
          pc, mode, deadline, op, ret, ticks, retry, t0, p0, d0, d1, r1, r2,
          lag1, lag2, hist, twin>>

self == <<_fastest, _slowest, _callbacks, _prev, _ratio, _delay>>
frame == <<t0, p0, d0, d1, r1, r2, lag1, lag2>>

----------------------------------------------------------------------------
\* Bounds of the exploration.

\* now() ranges over -MinClock .. MaxClock
MaxClock == 4
MinClock == 2
\* calls recorded in hist
MaxHist == 4
\* now() in the timed test ranges up to MaxTestClock
MaxTestClock == 24
\* the values assigned to hb.delay range over -1 .. MaxRate
MaxRate == 4

----------------------------------------------------------------------------
\* Float arithmetic.

Max(a, b) == IF a >= b THEN a ELSE b
Min(a, b) == IF a <= b THEN a ELSE b

\* n / m rounded to the nearest integer, ties to even (m > 0)
Round(n, m) ==
    LET q == n \div m
        r == n % m
    IN  IF 2 * r < m THEN q
        ELSE IF 2 * r > m THEN q + 1
        ELSE IF q % 2 = 0 THEN q ELSE q + 1

\* the largest finite float, scaled down to the grid, and the infinity that a
\* sum above it overflows to
float_max == 1023
inf == float_max + 1

\* x + y for floats x, y >= 0
add(x, y) == IF x + y > float_max THEN inf ELSE x + y

\* x / 2
half(x) == IF x = inf THEN inf ELSE Round(x, 2)

\* x / y and x * y for a float x and the ratio y = <<num, den>>
truediv(x, y) == Round(x * y[2], y[1])
mul(x, y) == Round(x * y[1], y[2])

\* timedelta.total_seconds(): microseconds to seconds (here: eighths of a second)
total_seconds(td) == Round(td * 8, 1000000)

\* a keyword argument: a float, a timedelta, or None
F(x) == <<"float", x>>
TD(us) == <<"timedelta", us>>
None == <<"None", 0>>
isinstance_timedelta(a) == a[1] = "timedelta"

\* the first three statements of each parameter block of __init__
to_seconds(a) == IF isinstance_timedelta(a) THEN total_seconds(a[2]) ELSE a[2]

----------------------------------------------------------------------------
\* The calls explored.

\* Heartbeat(**kw) where wait() and __next__() are explored
Kwargs ==
    [fastest : {F(0), F(1)}, slowest : {TD(250000)}, start : {None, F(3)},
     ratio : {<<3, 1>>}]

\* Heartbeat(**kw) where only the adjustments are explored
Fastests == {F(-1), F(0), F(1), TD(-125000)}
Slowests == {F(0), TD(375000)}
Starts == {None, F(0), TD(250000), F(3), F(4)}
Ratios == {<<1, 2>>, <<1, 1>>, <<3, 2>>, <<2, 1>>}

\* test_faster (fastest=1, slowest=8) and test_slower (fastest=2, slowest=30, start=4)
KwFaster == [fastest |-> F(8), slowest |-> F(64), start |-> None, ratio |-> <<2, 1>>]
KwSlower == [fastest |-> F(16), slowest |-> F(240), start |-> F(32), ratio |-> <<2, 1>>]

\* bounds whose sum is above the largest finite float
KwHuge == [fastest |-> F(512), slowest |-> F(1000), start |-> None, ratio |-> <<2, 1>>]

WideKwargs ==
    [fastest : Fastests, slowest : Slowests, start : Starts, ratio : Ratios]
        \cup {KwFaster, KwSlower, KwHuge}

NoKwargs == [fastest |-> None, slowest |-> None, start |-> None, ratio |-> <<1, 1>>]

\* no run is being compared
NoTwin ==
    [run |-> "none", t1 |-> 0, d1 |-> 0, r1 |-> 0, r2 |-> 0, prev |-> 0, delay |-> 0]

----------------------------------------------------------------------------
\* Heartbeat

Init ==
    /\ hb = "new"
    /\ args = NoKwargs
    /\ _fastest = 0
    /\ _slowest = 0
    /\ _callbacks = <<>>
    /\ _prev = 0
    /\ _ratio = <<1, 1>>
    /\ _delay = 0
    /\ now = -MinClock
    /\ pc = "idle"
    /\ mode = "none"
    /\ deadline = 0
    /\ op = "none"
    /\ ret = "None"
    /\ ticks = 0
    /\ retry = FALSE
    /\ t0 = 0 /\ p0 = 0 /\ d0 = 0 /\ d1 = 0 /\ r1 = 0 /\ r2 = 0
    /\ lag1 = FALSE /\ lag2 = FALSE
    /\ hist = <<>>
    /\ twin = NoTwin

\* the value `start` has at line 63
init_start(kw) ==
    IF kw.start = None
    THEN half(add(to_seconds(kw.fastest), to_seconds(kw.slowest)))
    ELSE to_seconds(kw.start)

\* the bounds check of `start` made strict
init_asserts_strict(kw) ==
    /\ to_seconds(kw.fastest) >= 0
    /\ to_seconds(kw.slowest) > to_seconds(kw.fastest)
    /\ to_seconds(kw.fastest) < init_start(kw)
    /\ init_start(kw) < to_seconds(kw.slowest)
    /\ kw.ratio[1] > kw.ratio[2]

\* the four assert statements of __init__ all pass
init_asserts(kw) ==
    /\ to_seconds(kw.fastest) >= 0
    /\ to_seconds(kw.slowest) > to_seconds(kw.fastest)
    /\ to_seconds(kw.fastest) <= init_start(kw)
    /\ init_start(kw) <= to_seconds(kw.slowest)
    /\ kw.ratio[1] > kw.ratio[2]

__init__(kw) ==
    /\ hb = "new"
    /\ args' = kw
    /\ op' = "__init__"
    /\ IF init_asserts(kw)
       THEN /\ hb' = "alive"
            /\ ret' = "None"
            /\ _fastest' = to_seconds(kw.fastest)
            /\ _slowest' = to_seconds(kw.slowest)
            /\ _callbacks' = <<>>
            /\ _prev' = -init_start(kw)
            /\ _ratio' = kw.ratio
            /\ _delay' = init_start(kw)
       ELSE /\ hb' = "failed"
            /\ ret' = "AssertionError"
            /\ UNCHANGED self
    /\ UNCHANGED <<now, pc, mode, deadline, ticks, retry, frame>>

Heartbeat == \E kw \in Kwargs : __init__(kw)

\* faster() without the max(): the quotient is stored as it is
faster_noclamp ==
    /\ hb = "alive"
    /\ op' = "faster"
    /\ IF _delay <= _fastest
       THEN /\ ret' = "False"
            /\ _delay' = _delay
       ELSE /\ _delay' = truediv(_delay, _ratio)
            /\ ret' = "True"
    /\ UNCHANGED <<hb, args, _fastest, _slowest, _callbacks, _prev, _ratio, now,
                   pc, mode, deadline, ticks, retry, frame>>

\* faster() with `<` for `<=` in its guard
faster_strict ==
    /\ hb = "alive"
    /\ op' = "faster"
    /\ IF _delay < _fastest
       THEN /\ ret' = "False"
            /\ _delay' = _delay
       ELSE /\ _delay' = Max(_fastest, truediv(_delay, _ratio))
            /\ ret' = "True"
    /\ UNCHANGED <<hb, args, _fastest, _slowest, _callbacks, _prev, _ratio, now,
                   pc, mode, deadline, ticks, retry, frame>>

\* faster() that also restarts the pacing: self._prev = self._now()
faster_restart ==
    /\ hb = "alive"
    /\ op' = "faster"
    /\ IF _delay <= _fastest
       THEN /\ ret' = "False"
            /\ _delay' = _delay
            /\ _prev' = _prev
       ELSE /\ _delay' = Max(_fastest, truediv(_delay, _ratio))
            /\ _prev' = now
            /\ ret' = "True"
    /\ UNCHANGED <<hb, args, _fastest, _slowest, _callbacks, _ratio, now,
                   pc, mode, deadline, ticks, retry, frame>>

faster ==
    /\ hb = "alive"
    /\ op' = "faster"
    /\ IF _delay <= _fastest
       THEN /\ ret' = "False"
            /\ _delay' = _delay
       ELSE /\ _delay' = Max(_fastest, truediv(_delay, _ratio))
            /\ ret' = "True"
    /\ UNCHANGED <<hb, args, _fastest, _slowest, _callbacks, _prev, _ratio, now,
                   pc, mode, deadline, ticks, retry, frame>>

\* slower() without the min(): the product is stored as it is
slower_noclamp ==
    /\ hb = "alive"
    /\ op' = "slower"
    /\ IF _delay >= _slowest
       THEN /\ ret' = "False"
            /\ _delay' = _delay
       ELSE /\ _delay' = mul(_delay, _ratio)
            /\ ret' = "True"
    /\ UNCHANGED <<hb, args, _fastest, _slowest, _callbacks, _prev, _ratio, now,
                   pc, mode, deadline, ticks, retry, frame>>

slower ==
    /\ hb = "alive"
    /\ op' = "slower"
    /\ IF _delay >= _slowest
       THEN /\ ret' = "False"
            /\ _delay' = _delay
       ELSE /\ _delay' = Min(_slowest, mul(_delay, _ratio))
            /\ ret' = "True"
    /\ UNCHANGED <<hb, args, _fastest, _slowest, _callbacks, _prev, _ratio, now,
                   pc, mode, deadline, ticks, retry, frame>>

\* the setter assigning before it asserts
delay_setter_assign_first(rate) ==
    /\ hb = "alive"
    /\ op' = "delay"
    /\ _delay' = rate
    /\ ret' = IF _fastest <= rate /\ rate <= _slowest THEN "None" ELSE "AssertionError"
    /\ UNCHANGED <<hb, args, _fastest, _slowest, _callbacks, _prev, _ratio, now,
                   pc, mode, deadline, ticks, retry, frame>>

\* hb.delay = rate
delay_setter(rate) ==
    /\ hb = "alive"
    /\ op' = "delay"
    /\ IF _fastest <= rate /\ rate <= _slowest
       THEN /\ _delay' = rate
            /\ ret' = "None"
       ELSE /\ _delay' = _delay
            /\ ret' = "AssertionError"
    /\ UNCHANGED <<hb, args, _fastest, _slowest, _callbacks, _prev, _ratio, now,
                   pc, mode, deadline, ticks, retry, frame>>

set_delay == \E rate \in -1 .. MaxRate : delay_setter(rate)

\* _get_pause() forgetting the time already elapsed
_get_pause_no_elapsed == _delay

\* _get_pause() without `if pause <= 0: return 0`
_get_pause_noclamp == _delay - (now - _prev)

_get_pause ==
    LET elapsed == now - _prev
        pause == _delay - elapsed
    IN  IF pause <= 0 THEN 0 ELSE pause

\* the call's record once it is over
no_frame ==
    /\ t0' = 0 /\ p0' = 0 /\ d0' = 0 /\ d1' = 0 /\ r1' = 0 /\ r2' = 0
    /\ lag1' = FALSE /\ lag2' = FALSE

\* wait() or __next__() up to the point where its first sleep is under way
begin(m) ==
    /\ hb = "alive"
    /\ pc = "idle"
    /\ mode' = m
    /\ pc' = "sleep1"
    /\ r1' = Round(_get_pause, 2)
    /\ deadline' = now + Round(_get_pause, 2)
    /\ t0' = now /\ p0' = _prev /\ d0' = _delay
    /\ d1' = _delay /\ r2' = 0
    /\ lag1' = FALSE /\ lag2' = FALSE
    /\ UNCHANGED <<hb, args, self, now, op, ret, ticks, retry>>

wait == begin("wait")

\* __next__() sleeping the whole pause in its first sleep
__next___whole_pause ==
    /\ hb = "alive"
    /\ pc = "idle"
    /\ mode' = "__next__"
    /\ pc' = "sleep1"
    /\ r1' = _get_pause
    /\ deadline' = now + _get_pause
    /\ t0' = now /\ p0' = _prev /\ d0' = _delay
    /\ d1' = _delay /\ r2' = 0
    /\ lag1' = FALSE /\ lag2' = FALSE
    /\ UNCHANGED <<hb, args, self, now, op, ret, ticks, retry>>

__next__ == begin("__next__")

\* the second pause computed from the delay read when the call began
sleep1_start_delay ==
    /\ pc = "sleep1"
    /\ now >= deadline
    /\ pc' = "sleep2"
    /\ lag1' = (now > deadline)
    /\ d1' = _delay
    /\ r2' = Max(0, d0 - (now - _prev))
    /\ deadline' = now + Max(0, d0 - (now - _prev))
    /\ UNCHANGED <<hb, args, self, now, mode, op, ret, ticks, retry,
                   t0, p0, d0, r1, lag2>>

\* the first sleep returns; the second _get_pause() runs and the second sleep begins
sleep1 ==
    /\ pc = "sleep1"
    /\ now >= deadline
    /\ pc' = "sleep2"
    /\ lag1' = (now > deadline)
    /\ d1' = _delay
    /\ r2' = _get_pause
    /\ deadline' = now + _get_pause
    /\ UNCHANGED <<hb, args, self, now, mode, op, ret, ticks, retry,
                   t0, p0, d0, r1, lag2>>

\* the tick scheduled from the previous one: self._prev += self._delay
sleep2_catch_up ==
    /\ pc = "sleep2"
    /\ now >= deadline
    /\ pc' = "done"
    /\ lag2' = (now > deadline)
    /\ _prev' = _prev + _delay
    /\ ticks' = Min(ticks + 1, 2)
    /\ UNCHANGED <<hb, args, _fastest, _slowest, _callbacks, _ratio, _delay, now,
                   mode, deadline, op, ret, retry, t0, p0, d0, d1, r1, r2, lag1>>

\* the second sleep returns; self._prev = self._now()
sleep2 ==
    /\ pc = "sleep2"
    /\ now >= deadline
    /\ pc' = "done"
    /\ lag2' = (now > deadline)
    /\ _prev' = now
    /\ ticks' = Min(ticks + 1, 2)
    /\ UNCHANGED <<hb, args, _fastest, _slowest, _callbacks, _ratio, _delay, now,
                   mode, deadline, op, ret, retry, t0, p0, d0, d1, r1, r2, lag1>>

\* wait() or __next__() returns None
return ==
    /\ pc = "done"
    /\ pc' = "idle"
    /\ op' = mode
    /\ ret' = "None"
    /\ mode' = "none"
    /\ deadline' = 0
    /\ retry' = FALSE
    /\ no_frame
    /\ UNCHANGED <<hb, args, self, now, ticks>>

\* a wait() that records the tick on its way out of a cancelled sleep
cancel_tick ==
    /\ pc \in {"sleep1", "sleep2"}
    /\ mode = "wait"
    /\ pc' = "idle"
    /\ op' = "wait"
    /\ ret' = "CancelledError"
    /\ retry' = TRUE
    /\ mode' = "none"
    /\ deadline' = 0
    /\ _prev' = now
    /\ no_frame
    /\ UNCHANGED <<hb, args, _fastest, _slowest, _callbacks, _ratio, _delay, now, ticks>>

\* the task awaiting wait() is cancelled: asyncio.sleep raises CancelledError,
\* which wait() lets through
cancel ==
    /\ pc \in {"sleep1", "sleep2"}
    /\ mode = "wait"
    /\ pc' = "idle"
    /\ op' = "wait"
    /\ ret' = "CancelledError"
    /\ retry' = TRUE
    /\ mode' = "none"
    /\ deadline' = 0
    /\ no_frame
    /\ UNCHANGED <<hb, args, self, now, ticks>>

\* time passes: the next reading of self._now() is one higher
time_passes(limit) ==
    /\ hb # "failed"
    /\ now < limit
    /\ now' = now + 1
    /\ UNCHANGED <<hb, args, self, pc, mode, deadline, op, ret, ticks, retry, frame>>

tick == time_passes(MaxClock)

----------------------------------------------------------------------------
\* Spec: one Heartbeat, driven by wait() or __next__() while faster(), slower()
\* and the delay setter are called from anywhere, also while a wait() sleeps;
\* sleeps may return late and a wait() may be cancelled.

Next ==
    \/ Heartbeat /\ UNCHANGED <<hist, twin>>
    \/ faster /\ UNCHANGED <<hist, twin>>
    \/ slower /\ UNCHANGED <<hist, twin>>
    \/ set_delay /\ UNCHANGED <<hist, twin>>
    \/ wait /\ UNCHANGED <<hist, twin>>
    \/ __next__ /\ UNCHANGED <<hist, twin>>
    \/ sleep1 /\ UNCHANGED <<hist, twin>>
    \/ sleep2 /\ UNCHANGED <<hist, twin>>
    \/ return /\ UNCHANGED <<hist, twin>>
    \/ cancel /\ UNCHANGED <<hist, twin>>
    \/ tick /\ UNCHANGED <<hist, twin>>

Spec == Init /\ [][Next]_vars

----------------------------------------------------------------------------
\* SpecAdjust: Heartbeat(**kw) over a wider range of arguments, followed by up to
\* MaxHist calls of faster(), slower() and the delay setter, each recorded in hist.

NextAdjust ==
    \/ /\ \E kw \in WideKwargs : __init__(kw)
       /\ hist' = <<>>
       /\ UNCHANGED twin
    \/ /\ Len(hist) < MaxHist
       /\ faster
       /\ hist' = Append(hist, <<"faster", 0>>)
       /\ UNCHANGED twin
    \/ /\ Len(hist) < MaxHist
       /\ slower
       /\ hist' = Append(hist, <<"slower", 0>>)
       /\ UNCHANGED twin
    \/ /\ Len(hist) < MaxHist
       /\ \E rate \in -1 .. MaxRate :
            /\ delay_setter(rate)
            /\ hist' = Append(hist, <<"delay", rate>>)
       /\ UNCHANGED twin

SpecAdjust == Init /\ [][NextAdjust]_vars

----------------------------------------------------------------------------
\* SpecTest: test_sync_wait and test_async_wait.  The calls follow TestScript, one
\* right after the other, and every sleep returns exactly when it is due.

TestScript ==
    <<"next", "next", "next", "next", "slower", "next", "next", "next",
      "faster", "next", "next", "next">>

scripted(call) ==
    /\ pc = "idle"
    /\ Len(hist) < Len(TestScript)
    /\ TestScript[Len(hist) + 1] = call
    /\ hist' = Append(hist, <<call, 0>>)
    /\ UNCHANGED twin

NextTest ==
    \/ /\ \E kw \in WideKwargs : __init__(kw)
       /\ hist' = <<>>
       /\ UNCHANGED twin
    \/ scripted("next") /\ __next__
    \/ scripted("next") /\ wait
    \/ scripted("slower") /\ slower
    \/ scripted("faster") /\ faster
    \/ sleep1 /\ UNCHANGED <<hist, twin>>
    \/ sleep2 /\ UNCHANGED <<hist, twin>>
    \/ return /\ UNCHANGED <<hist, twin>>
    \/ /\ pc \in {"sleep1", "sleep2"}
       /\ now < deadline
       /\ time_passes(MaxTestClock)
       /\ UNCHANGED <<hist, twin>>

SpecTest == Init /\ [][NextTest]_vars

----------------------------------------------------------------------------
\* SpecTwin: the same call made in both forms.  A wait() or __next__() runs as in
\* Spec (uncancelled).  When it is over, a second Heartbeat in the state the first
\* had when the call began makes the call in the other form, its now() giving
\* the same readings and the delay being set to the same values at the same
\* readings.

\* the second object and its time source, set up when the first call is over
rerun ==
    /\ pc = "done"
    /\ twin.run = "none"
    /\ twin' = [run |-> IF mode = "wait" THEN "__next__" ELSE "wait",
                t1 |-> deadline - r2, d1 |-> d1, r1 |-> r1, r2 |-> r2,
                prev |-> _prev, delay |-> _delay]
    /\ _prev' = p0
    /\ _delay' = d0
    /\ now' = t0
    /\ pc' = "idle"
    /\ mode' = "none"
    /\ deadline' = 0
    /\ no_frame
    /\ UNCHANGED <<hb, args, _fastest, _slowest, _callbacks, _ratio, op, ret,
                   ticks, retry, hist>>

\* the second call's surroundings: the time source reads on, and the delay is set,
\* as in the first call, up to the moment the sleep in progress returned there
replay(t, d) ==
    \/ time_passes(t)
    \/ now = t /\ _delay # d /\ delay_setter(d)

NextTwin ==
    \/ twin.run = "none" /\ Heartbeat /\ UNCHANGED <<hist, twin>>
    \/ twin.run = "none" /\ faster /\ UNCHANGED <<hist, twin>>
    \/ twin.run = "none" /\ slower /\ UNCHANGED <<hist, twin>>
    \/ twin.run = "none" /\ set_delay /\ UNCHANGED <<hist, twin>>
    \/ twin.run = "none" /\ tick /\ UNCHANGED <<hist, twin>>
    \/ twin.run \in {"none", "wait"} /\ wait /\ UNCHANGED <<hist, twin>>
    \/ twin.run \in {"none", "__next__"} /\ __next__ /\ UNCHANGED <<hist, twin>>
    \/ twin.run = "none" /\ sleep1 /\ UNCHANGED <<hist, twin>>
    \/ twin.run = "none" /\ sleep2 /\ UNCHANGED <<hist, twin>>
    \/ twin.run = "none" /\ return /\ UNCHANGED <<hist, twin>>
    \/ rerun
    \/ /\ twin.run # "none" /\ pc = "sleep1"
       /\ replay(twin.t1, twin.d1)
       /\ UNCHANGED <<hist, twin>>
    \/ /\ twin.run # "none" /\ pc = "sleep1"
       /\ now = twin.t1 /\ _delay = twin.d1
       /\ sleep1
       /\ UNCHANGED <<hist, twin>>
    \/ /\ twin.run # "none" /\ pc = "sleep2"
       /\ replay(twin.prev, twin.delay)
       /\ UNCHANGED <<hist, twin>>
    \/ /\ twin.run # "none" /\ pc = "sleep2"
       /\ now = twin.prev /\ _delay = twin.delay
       /\ sleep2
       /\ UNCHANGED <<hist, twin>>
    \/ /\ twin.run # "none"
       /\ return
       /\ twin' = NoTwin
       /\ UNCHANGED hist

SpecTwin == Init /\ [][NextTwin]_vars

----------------------------------------------------------------------------
\* SpecConverge: Heartbeat(**kw), then faster() called again and again, or
\* slower() called again and again, without end.  hist records the calls and
\* starts over when it holds MaxHist of them.

again(call) ==
    /\ (IF hist = <<>> THEN call ELSE hist[1][1]) = call
    /\ hist' = IF Len(hist) < MaxHist THEN Append(hist, <<call, 0>>) ELSE <<<<call, 0>>>>
    /\ UNCHANGED twin

NextConverge ==
    \/ /\ \E kw \in WideKwargs : __init__(kw)
       /\ hist' = <<>>
       /\ UNCHANGED twin
    \/ again("faster") /\ faster
    \/ again("slower") /\ slower

SpecConverge ==
    /\ Init
    /\ [][NextConverge]_vars
    /\ WF_vars(again("faster") /\ faster)
    /\ WF_vars(again("slower") /\ slower)

----------------------------------------------------------------------------
\* Claims.

Abs(x) == IF x < 0 THEN -x ELSE x

\* q is n / m rounded to a nearest representable number
IsNearest(q, n, m) == 2 * Abs(q * m - n) <= m

\* the call that extends hist in this step
Called(call) == hist' = Append(hist, call)

LastCall == IF hist = <<>> THEN <<"none", 0>> ELSE hist[Len(hist)]

\* no wait()/__next__() has returned yet and one is running
FirstCall ==
    \/ ticks = 0 /\ pc \in {"sleep1", "sleep2"}
    \/ ticks = 1 /\ pc = "done"

\* C1: a constructed Heartbeat always has fastest <= delay <= slowest, also
\* when faster(), slower() and the setter run while a wait() sleeps.
C1_Bounds == hb = "alive" => _fastest <= _delay /\ _delay <= _slowest

\* a wait() in its second sleep, adjusted during both sleeps, last by a setter
\* call that failed
C1_Witness ==
    /\ hb = "alive"
    /\ pc = "sleep2"
    /\ d0 # d1
    /\ d1 # _delay
    /\ op = "delay"
    /\ ret = "AssertionError"
    /\ _delay = _slowest

\* C2: right after construction the first wait() (or __next__()) asks both of
\* its sleeps for zero seconds, whatever the time source reads.
C2_FirstWaitFree ==
    (hb = "alive" /\ FirstCall /\ d0 = init_start(args) /\ d1 = d0)
        => r1 = 0 /\ r2 = 0

\* C3 as stated: the pause of a wait() is fixed by the delay read when the call
\* began, so with exact sleeps a wait() after the first ends at
\* max(start of the call, tick + that delay).
C3_DelayReadAtStart ==
    (pc = "done" /\ ticks = 2 /\ ~lag1 /\ ~lag2) => _prev = Max(t0, p0 + d0)

\* C3 amended: the second pause is computed from the delay current when the
\* first sleep returns, so with exact sleeps the wait() ends at
\* max(end of the first sleep, tick + that delay); a later change of the delay
\* does not move it.
C3_DelayReadTwice ==
    (pc = "done" /\ ~lag1 /\ ~lag2) => _prev = Max(t0 + r1, p0 + d1)

\* a wait() after the first, with exact sleeps, whose delay was changed in its
\* first sleep and again in its second: it ended where the delay of the second
\* _get_pause() puts it, not where the delay at its start does
C3_Witness ==
    /\ pc = "done"
    /\ ticks = 2
    /\ ~lag1 /\ ~lag2
    /\ d1 # d0
    /\ _delay # d1
    /\ _prev = p0 + d1
    /\ _prev # Max(t0, p0 + d0)

\* C4: faster() sets delay to max(fastest, delay / ratio) and slower() to
\* min(slowest, delay * ratio), the quotient and the product rounded to nearest;
\* test_faster's (fastest=1, slowest=8) run reads 4.5, 2.25, 1.125, 1, 1 and
\* test_slower's (fastest=2, slowest=30, start=4) run reads 4, 8, 16, 30, 30.
C4_GeometricStep ==
    /\ [][Called(<<"faster", 0>>) =>
            \E q \in 0 .. _delay :
                /\ IsNearest(q, _delay * _ratio[2], _ratio[1])
                /\ _delay' = Max(_fastest, q)]_vars
    /\ [][Called(<<"slower", 0>>) =>
            \E q \in _delay .. _delay * _ratio[1] :
                /\ IsNearest(q, _delay * _ratio[1], _ratio[2])
                /\ _delay' = Min(_slowest, q)]_vars
    /\ []((/\ hb = "alive"
           /\ args = KwFaster
           /\ Len(hist) <= 4
           /\ \A i \in 1 .. Len(hist) : hist[i] = <<"faster", 0>>)
            => _delay = <<36, 18, 9, 8, 8>>[Len(hist) + 1])
    /\ []((/\ hb = "alive"
           /\ args = KwSlower
           /\ Len(hist) <= 4
           /\ \A i \in 1 .. Len(hist) : hist[i] = <<"slower", 0>>)
            => _delay = <<32, 64, 128, 240, 240>>[Len(hist) + 1])

\* test_faster's first run after three faster() calls: 1.125 / 2 was raised to fastest
C4_Witness ==
    /\ hb = "alive"
    /\ args = KwFaster
    /\ hist = <<<<"faster", 0>>, <<"faster", 0>>, <<"faster", 0>>>>
    /\ _delay = _fastest
    /\ ret = "True"

\* C5: at delay = fastest faster() returns False and leaves delay alone, at
\* delay = slowest slower() does; neither ever raises.
C5_Saturation ==
    /\ [][(Called(<<"faster", 0>>) /\ _delay = _fastest)
            => (ret' = "False" /\ _delay' = _delay)]_vars
    /\ [][(Called(<<"slower", 0>>) /\ _delay = _slowest)
            => (ret' = "False" /\ _delay' = _delay)]_vars
    /\ [](LastCall[1] \in {"faster", "slower"} => ret \in {"True", "False"})

\* slower() has returned False at the slowest delay, which an earlier call reached
C5_Witness ==
    /\ Len(hist) >= 2
    /\ LastCall = <<"slower", 0>>
    /\ hist[Len(hist) - 1] = <<"slower", 0>>
    /\ ret = "False"
    /\ _delay = _slowest

\* C6: hb.delay = v with fastest <= v <= slowest sets delay to v; any other v
\* raises and leaves every field of the object as it was.
C6_Assignment ==
    [][\A v \in -1 .. MaxRate :
        Called(<<"delay", v>>) =>
            IF _fastest <= v /\ v <= _slowest
            THEN /\ _delay' = v
                 /\ ret' = "None"
                 /\ UNCHANGED <<_fastest, _slowest, _callbacks, _prev, _ratio>>
            ELSE /\ ret' = "AssertionError"
                 /\ UNCHANGED self]_vars

\* an assignment above slowest has raised, after one that changed the delay
C6_Witness ==
    /\ Len(hist) >= 2
    /\ LastCall[1] = "delay"
    /\ LastCall[2] > _slowest
    /\ ret = "AssertionError"
    /\ hist[Len(hist) - 1][1] = "delay"
    /\ _delay = hist[Len(hist) - 1][2]
    /\ _delay # init_start(args)

\* the arguments the claim lists as failing
C7_Rejected(kw) ==
    \/ to_seconds(kw.fastest) < 0
    \/ to_seconds(kw.slowest) <= to_seconds(kw.fastest)
    \/ init_start(kw) < to_seconds(kw.fastest)
    \/ init_start(kw) > to_seconds(kw.slowest)
    \/ kw.ratio[1] <= kw.ratio[2]

\* C7: Heartbeat(...) raises, and no object is made, exactly when fastest < 0,
\* slowest <= fastest, start is outside [fastest, slowest] or ratio <= 1.
C7_Construction ==
    hb # "new" =>
        /\ (hb = "failed") <=> C7_Rejected(args)
        /\ hb = "failed" =>
            /\ ret = "AssertionError"
            /\ self = <<0, 0, <<>>, 0, <<1, 1>>, 0>>
        /\ (hb = "alive" /\ hist = <<>>) =>
            /\ ret = "None"
            /\ _delay = init_start(args)

\* a Heartbeat made with start = slowest, given as a number
C7_Witness ==
    /\ hb = "alive"
    /\ hist = <<>>
    /\ args.start # None
    /\ _delay = _slowest

\* the delay the timed test expects once hist holds k calls, as the claim states it
C8_Stated(k) ==
    IF k <= 4 THEN init_start(args)
    ELSE IF k <= 8 THEN mul(init_start(args), _ratio)
    ELSE init_start(args)

\* the same, with the bounds applied
C8_Clamped(k) ==
    IF k <= 4 THEN init_start(args)
    ELSE IF k <= 8 THEN Min(_slowest, mul(init_start(args), _ratio))
    ELSE Max(_fastest, truediv(Min(_slowest, mul(init_start(args), _ratio)), _ratio))

\* C8 as stated: with exact sleeps and no time between the calls, the waits
\* after the first take start, after slower() start * ratio, after faster() start.
C8_TimedAsStated ==
    (pc = "done" /\ Len(hist) >= 2) => _prev - t0 = C8_Stated(Len(hist))

\* C8 amended: each wait after the first takes exactly the current delay, which
\* is start, then min(slowest, start * ratio), then
\* max(fastest, min(slowest, start * ratio) / ratio).
C8_Timed ==
    (pc = "done" /\ Len(hist) >= 2) =>
        /\ _prev - t0 = _delay
        /\ _delay = C8_Clamped(Len(hist))

\* the last wait of the test has ended, in a run where slower() hit the bound
C8_Witness ==
    /\ pc = "done"
    /\ Len(hist) = Len(TestScript)
    /\ _prev - t0 = _delay
    /\ _delay > 0
    /\ mul(init_start(args), _ratio) > _slowest

\* C9: a cancelled wait() raises CancelledError and leaves _prev and delay as
\* they were; the wait() that follows, with exact sleeps, ends at
\* max(its start, tick + delay).
C9_Cancelled ==
    /\ [][(pc \in {"sleep1", "sleep2"} /\ pc' = "idle")
            => (ret' = "CancelledError" /\ _prev' = _prev /\ _delay' = _delay)]_vars
    /\ []((pc = "done" /\ retry /\ ~lag1 /\ ~lag2 /\ d1 = d0)
            => _prev = Max(t0, p0 + d0))

\* a wait() begun after a cancelled one, later than the tick, has ended at
\* tick + delay, sooner than a full delay after it began
C9_Witness ==
    /\ pc = "done"
    /\ retry
    /\ ticks = 2
    /\ ~lag1 /\ ~lag2
    /\ d1 = d0
    /\ t0 > p0
    /\ _prev = p0 + d0
    /\ _prev < t0 + d0

\* C10: when one of the two sleeps of a wait() returns late, the wait() ends at
\* most delay / 2 after tick + delay (for a wait() after the first, begun before
\* it was due, with a delay above zero that did not change).
C10_HalfDelayLag ==
    (pc = "done" /\ ticks = 2 /\ d0 > 0 /\ d1 = d0 /\ t0 <= p0 + d0 /\ lag1 # lag2)
        => 2 * (_prev - (p0 + d0)) <= d0

C12_Converges ==
    /\ [][(hist' # hist /\ hist' # <<>> /\ hist'[1] = <<"faster", 0>>)
            => _delay' <= _delay]_vars
    /\ [][(hist' # hist /\ hist' # <<>> /\ hist'[1] = <<"slower", 0>>)
            => _delay' >= _delay]_vars
    /\ (hb = "alive" /\ hist # <<>> /\ hist[1] = <<"faster", 0>>) ~> (_delay = _fastest)
    /\ (hb = "alive" /\ hist # <<>> /\ hist[1] = <<"slower", 0>>) ~> (_delay = _slowest)

\* C13: a wait() asks for exactly two sleeps and then sets _prev = now(): the
\* first is max(0, delay - (now() - _prev)) / 2, the second
\* max(0, delay - (now() - _prev)) measured again when the first has returned;
\* neither is negative, and the second is 0 when the time elapsed by then has
\* reached the delay.
C13_TwoSleeps ==
    /\ [][(pc = "idle" /\ pc' # "idle") =>
            /\ pc' = "sleep1"
            /\ IsNearest(r1', Max(0, _delay - (now - _prev)), 2)
            /\ r1' >= 0
            /\ deadline' = now + r1']_vars
    /\ [][(pc = "sleep1" /\ pc' \notin {"sleep1", "idle"}) =>
            /\ pc' = "sleep2"
            /\ r2' = Max(0, _delay - (now - _prev))
            /\ r2' >= 0
            /\ (now - _prev >= _delay => r2' = 0)
            /\ deadline' = now + r2'
            /\ r1' = r1]_vars
    /\ [][(pc = "sleep2" /\ pc' \notin {"sleep2", "idle"}) =>
            /\ pc' = "done"
            /\ _prev' = now
            /\ r1' = r1 /\ r2' = r2]_vars
    /\ [][(pc # "idle" /\ pc' = "idle" /\ ret' = "None") => pc = "done"]_vars

\* a wait() after the first is over whose first sleep, asked for half the pause,
\* returned so late that the second was asked for 0
C13_Witness ==
    /\ pc = "done"
    /\ ticks = 2
    /\ r1 > 0
    /\ lag1
    /\ r2 = 0
    /\ _prev > p0 + d1

C15_FirstWaitFreeAfterChange ==
    (hb = "alive" /\ FirstCall /\ t0 >= 0 /\ d0 # init_start(args) /\ d1 = d0)
        => r1 = 0 /\ r2 = 0

\* C16: faster() returns True exactly when it has lowered the delay and
\* slower() returns True exactly when it has raised it.
C16_ResultReportsChange ==
    /\ [][Called(<<"faster", 0>>) => ((ret' = "True") <=> (_delay' < _delay))]_vars
    /\ [][Called(<<"slower", 0>>) => ((ret' = "True") <=> (_delay' > _delay))]_vars

\* C17: faster(), slower() and the setter leave _prev, fastest, slowest and ratio
\* alone; wait() and __next__() change _prev only, and only when their second
\* sleep has returned; fastest, slowest and ratio are those Heartbeat(...) was
\* given, in every state.
C17_Frame ==
    /\ [](hb = "alive" =>
            /\ _fastest = to_seconds(args.fastest)
            /\ _slowest = to_seconds(args.slowest)
            /\ _ratio = args.ratio)
    /\ [][(hb = "alive" /\ pc' = pc)
            => UNCHANGED <<_prev, _fastest, _slowest, _ratio, _callbacks>>]_vars
    /\ [][(pc' # pc)
            => UNCHANGED <<_delay, _fastest, _slowest, _ratio, _callbacks>>]_vars
    /\ [][(hb = "alive" /\ _prev' # _prev) => (pc = "sleep2" /\ pc' = "done")]_vars

\* a wait() after the first has set _prev; the delay was lowered by faster()
\* while it slept, and the bounds and the ratio are those given
C17_Witness ==
    /\ pc = "done"
    /\ ticks = 2
    /\ _prev # p0
    /\ op = "faster"
    /\ ret = "True"
    /\ _delay < d0
    /\ <<_fastest, _slowest>> = <<to_seconds(args.fastest), to_seconds(args.slowest)>>
    /\ _ratio = args.ratio

\* C18: without `start` the delay begins at (fastest + slowest) / 2, and for
\* every 0 <= fastest < slowest (and ratio > 1) Heartbeat(...) is constructed:
\* the defaulted start never fails the bounds check.
C18_DefaultStart ==
    (/\ hb # "new"
     /\ args.start = None
     /\ 0 <= to_seconds(args.fastest)
     /\ to_seconds(args.fastest) < to_seconds(args.slowest)
     /\ args.ratio[1] > args.ratio[2])
        => /\ hb = "alive"
           /\ hist = <<>> =>
                IsNearest(_delay, to_seconds(args.fastest) + to_seconds(args.slowest), 2)

====
